---- MODULE Spec2Model ----
(***************************************************************************)
(* Model of the paired-market hedging engine of trading_binary:            *)
(*   src/src/core/position.py           Position, PairPosition             *)
(*   src/src/execution/order_manager.py OrderManager (simulated fills)     *)
(*   src/src/monitor/price_monitor.py   PriceMonitor                       *)
(*   src/src/risk/stop_conditions.py    RiskController                     *)
(*   src/src/market/polymarket_api.py   OrderBook                          *)
(*   src/main.py, src/dashboard.py      the two driving loops              *)
(*                                                                         *)
(* Units.  Prices are in cents (1.00 = PriceScale).  Quantities are in     *)
(* lots of LotShares shares.  A cost is therefore in lot-cents, and an     *)
(* amount of d dollars is d * PriceScale / LotShares lot-cents.  The       *)
(* Python code computes in binary floating point; the model computes in    *)
(* exact rational arithmetic on these units, a rational being a pair       *)
(* <<numerator, denominator>> with denominator > 0.                        *)
(*                                                                         *)
(* An Optional value is a sequence of length at most one: <<>> is None.    *)
(***************************************************************************)
EXTENDS Integers, Sequences, FiniteSets, TLC

VARIABLES
    position,           \* PairPosition: [yes |-> Position, no |-> Position]
    orders,             \* every Order object created so far, by identity (index)
    pending_orders,     \* OrderManager.pending_orders   (order identities)
    filled_orders,      \* OrderManager.filled_orders    (order identities)
    trade_history,      \* OrderManager.trade_history    (order identities)
    current_orderbook,  \* OrderManager.current_orderbook (Optional OrderBook)
    last_yes_price,     \* PriceMonitor.last_yes_price
    last_no_price,      \* PriceMonitor.last_no_price
    unhedged_start_time,\* RiskController.unhedged_start_time (Optional time)
    last_unhedged_side, \* RiskController.last_unhedged_side  (Optional side)
    limits,             \* RiskController's configured limits (max_*, buffer)
    now,                \* the wall clock, in seconds
    bot,                \* the driving loops' own flags
    last                \* observation: the last operation, its inputs and result

vars == <<position, orders, pending_orders, filled_orders, trade_history,
          current_orderbook, last_yes_price, last_no_price,
          unhedged_start_time, last_unhedged_side, limits, now, bot, last>>

ledgerVars  == <<position>>
managerVars == <<orders, pending_orders, filled_orders, trade_history, current_orderbook>>
monitorVars == <<last_yes_price, last_no_price>>
riskVars    == <<unhedged_start_time, last_unhedged_side, limits>>

\* -------------------------------------------------------------------------
\* Units and program constants
\* -------------------------------------------------------------------------
PriceScale == 100
LotShares == 50

None == <<>>
Some(x) == <<x>>
IsNone(o) == Len(o) = 0
IsSome(o) == Len(o) > 0
Get(o) == o[1]

\* exact rationals <<n, d>>, d > 0
R(n, d) == <<n, d>>
Cents(n) == <<n, 1>>
RAdd(a, b) == <<a[1] * b[2] + b[1] * a[2], a[2] * b[2]>>
RSub(a, b) == <<a[1] * b[2] - b[1] * a[2], a[2] * b[2]>>
RMul(a, b) == <<a[1] * b[1], a[2] * b[2]>>
RLt(a, b) == a[1] * b[2] < b[1] * a[2]
RLe(a, b) == a[1] * b[2] <= b[1] * a[2]
RGt(a, b) == RLt(b, a)
RGe(a, b) == RLe(b, a)
REq(a, b) == a[1] * b[2] = b[1] * a[2]

Min(a, b) == IF a <= b THEN a ELSE b

\* the fee-adjusted admission ceiling 0.98 and the 5% safety margin 0.95
AdmissionCeiling == 98
SafetyMarginPct == 95
\* the neutral reference price 0.5 of an empty side and of an empty queue
NeutralPrice == 50

\* str.upper() on the side strings the model feeds in
Upper(s) == CASE s = "yes" -> "YES"
              [] s = "no" -> "NO"
              [] OTHER -> s

\* -------------------------------------------------------------------------
\* Position, PairPosition (src/src/core/position.py)
\* -------------------------------------------------------------------------
EmptyPosition == [qty |-> 0, cost |-> 0]

NewPairPosition == [yes |-> EmptyPosition, no |-> EmptyPosition]

avg_price_zero(pos) == IF pos.qty = 0 THEN Cents(0) ELSE R(pos.cost, pos.qty)

avg_price(pos) == IF pos.qty = 0 THEN Cents(NeutralPrice) ELSE R(pos.cost, pos.qty)

\* a fill that replaces the cost instead of adding to it
add_position_overwrite(pos, qty, price) == [qty |-> pos.qty + qty, cost |-> price * qty]

\* a fill that books its cost without its quantity
add_position_costOnly(pos, qty, price) == [qty |-> pos.qty, cost |-> pos.cost + price * qty]

\* Position.add_position(qty, price), price a whole number of cents
add_position(pos, qty, price) == [qty |-> pos.qty + qty, cost |-> pos.cost + price * qty]

total_cost(p) == p.yes.cost + p.no.cost

\* the larger of the two quantities
min_qty_larger(p) == IF p.yes.qty >= p.no.qty THEN p.yes.qty ELSE p.no.qty

min_qty(p) == Min(p.yes.qty, p.no.qty)

\* the YES average alone
pair_cost_yesOnly(p) == avg_price(p.yes)

pair_cost(p) == RAdd(avg_price(p.yes), avg_price(p.no))

\* min_qty counts shares and total_cost dollars: in lots and lot-cents the
\* comparison min_qty > total_cost is min_qty * PriceScale > total_cost
is_profitable_ge(p) ==
    IF min_qty(p) = 0 THEN FALSE ELSE min_qty(p) * PriceScale >= total_cost(p)

is_profitable(p) ==
    IF min_qty(p) = 0 THEN FALSE ELSE min_qty(p) * PriceScale > total_cost(p)

\* can_buy(side, qty, price): price is a rational.  The result is "True",
\* "False", or "ValueError" when the side is rejected (raise ValueError).
can_buy_le(p, side, qty, price) ==
    IF Upper(side) \notin {"YES", "NO"} THEN "ValueError"
    ELSE LET current_pos  == IF Upper(side) = "YES" THEN p.yes ELSE p.no
             opposite_avg == IF Upper(side) = "YES" THEN avg_price(p.no) ELSE avg_price(p.yes)
             new_cost     == RAdd(Cents(current_pos.cost), RMul(price, Cents(qty)))
             new_qty      == current_pos.qty + qty
             new_avg      == IF new_qty > 0 THEN R(new_cost[1], new_cost[2] * new_qty) ELSE price
         IN  IF RLe(RAdd(new_avg, opposite_avg), Cents(AdmissionCeiling)) THEN "True" ELSE "False"

can_buy(p, side, qty, price) ==
    IF Upper(side) \notin {"YES", "NO"} THEN "ValueError"
    ELSE LET current_pos  == IF Upper(side) = "YES" THEN p.yes ELSE p.no
             opposite_avg == IF Upper(side) = "YES" THEN avg_price(p.no) ELSE avg_price(p.yes)
             new_cost     == RAdd(Cents(current_pos.cost), RMul(price, Cents(qty)))
             new_qty      == current_pos.qty + qty
             new_avg      == IF new_qty > 0 THEN R(new_cost[1], new_cost[2] * new_qty) ELSE price
         IN  IF RLt(RAdd(new_avg, opposite_avg), Cents(AdmissionCeiling)) THEN "True" ELSE "False"

get_imbalance_ratio(p) ==
    LET total == p.yes.qty + p.no.qty
        diff  == p.yes.qty - p.no.qty
    IN  IF total = 0 THEN R(0, 1) ELSE R(IF diff < 0 THEN -diff ELSE diff, total)

\* the target side with both comparisons weak
get_target_side_ge(p) ==
    IF 10 * p.yes.qty >= 12 * p.no.qty THEN Some("NO")
    ELSE IF 10 * p.no.qty >= 12 * p.yes.qty THEN Some("YES")
    ELSE None

\* the target side with a factor of 2 in place of 1.2
get_target_side_double(p) ==
    IF p.yes.qty > 2 * p.no.qty THEN Some("NO")
    ELSE IF p.no.qty > 2 * p.yes.qty THEN Some("YES")
    ELSE None

\* yes.qty > no.qty * 1.2 is 10 * yes.qty > 12 * no.qty
get_target_side(p) ==
    IF 10 * p.yes.qty > 12 * p.no.qty THEN Some("NO")
    ELSE IF 10 * p.no.qty > 12 * p.yes.qty THEN Some("YES")
    ELSE None

\* -------------------------------------------------------------------------
\* OrderBook (src/src/market/polymarket_api.py)
\* A queue is a sequence of levels [price, qty], best level first.
\* -------------------------------------------------------------------------
Level(price, qty) == [price |-> price, qty |-> qty]

yes_mid_price(ob) ==
    IF Len(ob.yes_bids) > 0 /\ Len(ob.yes_asks) > 0
    THEN R(ob.yes_bids[1].price + ob.yes_asks[1].price, 2)
    ELSE Cents(NeutralPrice)

no_mid_price(ob) ==
    IF Len(ob.no_bids) > 0 /\ Len(ob.no_asks) > 0
    THEN R(ob.no_bids[1].price + ob.no_asks[1].price, 2)
    ELSE Cents(NeutralPrice)

\* Optional level
get_best_ask(ob, side) ==
    IF Upper(side) = "YES" THEN (IF Len(ob.yes_asks) > 0 THEN Some(ob.yes_asks[1]) ELSE None)
    ELSE IF Upper(side) = "NO" THEN (IF Len(ob.no_asks) > 0 THEN Some(ob.no_asks[1]) ELSE None)
    ELSE None

\* -------------------------------------------------------------------------
\* OrderManager (src/src/execution/order_manager.py)
\* The manager and the ledger it shares are threaded through the operators
\* as one record m; an Order is held by identity, its index in m.orders.
\* -------------------------------------------------------------------------
ManagerState ==
    [position |-> position, orders |-> orders, pending_orders |-> pending_orders,
     filled_orders |-> filled_orders, trade_history |-> trade_history,
     current_orderbook |-> current_orderbook]

NewOrder(side, price, qty, t) ==
    [side |-> side, price |-> price, qty |-> qty, status |-> "PENDING",
     filled_qty |-> 0, filled_price |-> 0, timestamp |-> t]

\* list.remove(x): drops the first occurrence of x
RemoveFirst(seq, x) ==
    LET hits == {k \in 1..Len(seq) : seq[k] = x}
    IN  IF hits = {} THEN seq
        ELSE LET k == CHOOSE h \in hits : \A g \in hits : h <= g
             IN  SubSeq(seq, 1, k - 1) \o SubSeq(seq, k + 1, Len(seq))

\* the fill itself: status, filled_qty, filled_price of a matched order
FillFields_full(order, best_ask) ==
    [order EXCEPT !.status = "FILLED",
                  !.filled_qty = order.qty,
                  !.filled_price = best_ask.price]

FillFields(order, best_ask) ==
    [order EXCEPT !.status = "FILLED",
                  !.filled_qty = Min(order.qty, best_ask.qty),
                  !.filled_price = best_ask.price]

\* order.price >= best_ask.price
Marketable_strict(order, best_ask) == order.price > best_ask.price

Marketable(order, best_ask) == order.price >= best_ask.price

\* a fill that takes its quantity out of the snapshot's best ask
try_fill_order_consumes(m, i) ==
    LET order == m.orders[i]
    IN  IF order.status # "PENDING" THEN m
        ELSE IF IsNone(m.current_orderbook) THEN m
        ELSE LET ob       == Get(m.current_orderbook)
                 best_ask == get_best_ask(ob, order.side)
             IN  IF IsSome(best_ask) /\ Marketable(order, Get(best_ask))
                 THEN LET f    == FillFields(order, Get(best_ask))
                          left == [Get(best_ask) EXCEPT !.qty = @ - f.filled_qty]
                      IN  [m EXCEPT
                             !.orders[i] = f,
                             !.position =
                                 IF order.side = "YES"
                                 THEN [@ EXCEPT !.yes = add_position(@, f.filled_qty, f.filled_price)]
                                 ELSE [@ EXCEPT !.no = add_position(@, f.filled_qty, f.filled_price)],
                             !.pending_orders = RemoveFirst(@, i),
                             !.filled_orders = Append(@, i),
                             !.trade_history = Append(@, i),
                             !.current_orderbook =
                                 Some(IF Upper(order.side) = "YES"
                                      THEN [ob EXCEPT !.yes_asks[1] = left]
                                      ELSE [ob EXCEPT !.no_asks[1] = left])]
                 ELSE m

\* _try_fill_order(order)
try_fill_order(m, i) ==
    LET order == m.orders[i]
    IN  IF order.status # "PENDING" THEN m
        ELSE IF IsNone(m.current_orderbook) THEN m
        ELSE LET best_ask == get_best_ask(Get(m.current_orderbook), order.side)
             IN  IF IsSome(best_ask) /\ Marketable(order, Get(best_ask))
                 THEN LET f == FillFields(order, Get(best_ask))
                      IN  [m EXCEPT
                             !.orders[i] = f,
                             !.position =
                                 IF order.side = "YES"
                                 THEN [@ EXCEPT !.yes = add_position(@, f.filled_qty, f.filled_price)]
                                 ELSE [@ EXCEPT !.no = add_position(@, f.filled_qty, f.filled_price)],
                             !.pending_orders = RemoveFirst(@, i),
                             !.filled_orders = Append(@, i),
                             !.trade_history = Append(@, i)]
                 ELSE m

\* max_price < best_ask.price, max_price a rational
PriceTooHigh_rev(max_price, best_ask) == RGt(max_price, Cents(best_ask.price))

PriceTooHigh(max_price, best_ask) == RLt(max_price, Cents(best_ask.price))

\* place_limit_order(side, qty, max_price); fetched is what api.get_orderbook
\* returns if it is called; t is the creation time.  The result is the
\* manager after the call and the Optional order returned.
place_limit_order(m, side, qty, max_price, fetched, t) ==
    LET m1 == IF IsNone(m.current_orderbook) THEN [m EXCEPT !.current_orderbook = fetched] ELSE m
    IN  IF IsNone(m1.current_orderbook) THEN [m |-> m1, order |-> None]
        ELSE LET best_ask == get_best_ask(Get(m1.current_orderbook), side)
             IN  IF IsNone(best_ask) THEN [m |-> m1, order |-> None]
                 ELSE IF PriceTooHigh(max_price, Get(best_ask)) THEN [m |-> m1, order |-> None]
                 ELSE LET i  == Len(m1.orders) + 1
                          m2 == [m1 EXCEPT
                                   !.orders = Append(@, NewOrder(side, Get(best_ask).price, qty, t)),
                                   !.pending_orders = Append(@, i)]
                      IN  [m |-> try_fill_order(m2, i), order |-> Some(i)]

\* a cancellation that marks every order, filled ones too
cancel_all_orders_everyOrder(m) ==
    [m EXCEPT
       !.orders = [k \in 1..Len(m.orders) |-> [m.orders[k] EXCEPT !.status = "CANCELLED"]],
       !.pending_orders = <<>>]

\* cancel_all_orders()
cancel_all_orders(m) ==
    [m EXCEPT
       !.orders = [k \in 1..Len(m.orders) |->
                      IF \E j \in 1..Len(m.pending_orders) : m.pending_orders[j] = k
                      THEN [m.orders[k] EXCEPT !.status = "CANCELLED"]
                      ELSE m.orders[k]],
       !.pending_orders = <<>>]

\* the target without the safety margin
calculate_target_price_noMargin(p, side, opposite_avg) ==
    RSub(Cents(AdmissionCeiling), opposite_avg)

\* the target as the admission ceiling itself
calculate_target_price_ceiling(p, side, opposite_avg) == Cents(AdmissionCeiling)

\* calculate_target_price(side, opposite_avg): a rational
calculate_target_price(p, side, opposite_avg) ==
    LET current_pos == IF side = "YES" THEN p.yes ELSE p.no
        max_new_avg == RSub(Cents(AdmissionCeiling), opposite_avg)
    IN  IF current_pos.qty = 0 THEN max_new_avg
        ELSE RMul(max_new_avg, R(SafetyMarginPct, 100))

\* -------------------------------------------------------------------------
\* PriceMonitor (src/src/monitor/price_monitor.py)
\* -------------------------------------------------------------------------
ENTRY_PRICE_MIN == 35
ENTRY_PRICE_MAX == 50

InBand(price) == RLe(Cents(ENTRY_PRICE_MIN), price) /\ RLe(price, Cents(ENTRY_PRICE_MAX))

\* self.last_x_price < entry_price_min or self.last_x_price > entry_price_max
WasOutside(price) == RLt(price, Cents(ENTRY_PRICE_MIN)) \/ RGt(price, Cents(ENTRY_PRICE_MAX))

\* check_price(order_book): the monitor after the call and the Optional side
\* returned; the stored prices are written only on the path that returns None
check_price(lastYes, lastNo, ob) ==
    LET yes_price == yes_mid_price(ob)
        no_price  == no_mid_price(ob)
    IN  IF InBand(yes_price) /\ WasOutside(lastYes)
        THEN [last_yes_price |-> lastYes, last_no_price |-> lastNo, side |-> Some("YES")]
        ELSE IF InBand(no_price) /\ WasOutside(lastNo)
        THEN [last_yes_price |-> lastYes, last_no_price |-> lastNo, side |-> Some("NO")]
        ELSE [last_yes_price |-> yes_price, last_no_price |-> no_price, side |-> None]

\* -------------------------------------------------------------------------
\* RiskController (src/src/risk/stop_conditions.py)
\* -------------------------------------------------------------------------
MAX_TOTAL_CAPITAL == 1000
MAX_POS_PER_WINDOW == 300
MAX_UNHEDGED_SEC == 120
MAX_PAIR_COST == 98
SETTLEMENT_BUFFER_SECONDS == 60

\* the controller the dashboard constructs from Config
ConfigLimits ==
    [max_total_capital |-> MAX_TOTAL_CAPITAL,
     max_pos_per_window |-> MAX_POS_PER_WINDOW,
     max_unhedged_seconds |-> MAX_UNHEDGED_SEC,
     max_pair_cost |-> MAX_PAIR_COST,
     settlement_buffer_seconds |-> SETTLEMENT_BUFFER_SECONDS]

\* the defaults of RiskController.__init__'s parameters
DefaultMaxTotalCapital == 1000
DefaultMaxPosPerWindow == 200
DefaultMaxUnhedgedSeconds == 120
DefaultMaxPairCost == 98
DefaultSettlementBufferSeconds == 60

\* RiskController(): the limits of a controller constructed without arguments
DefaultLimits ==
    [max_total_capital |-> DefaultMaxTotalCapital,
     max_pos_per_window |-> DefaultMaxPosPerWindow,
     max_unhedged_seconds |-> DefaultMaxUnhedgedSeconds,
     max_pair_cost |-> DefaultMaxPairCost,
     settlement_buffer_seconds |-> DefaultSettlementBufferSeconds]

\* a cost in lot-cents exceeds a limit in dollars
ExceedsDollars_ge(cost, dollars) == cost * LotShares >= dollars * PriceScale

ExceedsDollars(cost, dollars) == cost * LotShares > dollars * PriceScale

\* the keys of a stop's details map, by details["type"]
DetailKeys(type) ==
    CASE type = "profit_locked" -> {"type", "min_qty", "total_cost", "profit"}
      [] type = "unhedged_timeout" -> {"type", "side", "duration_seconds", "max_allowed"}
      [] type = "pair_cost_too_high" ->
            {"type", "pair_cost", "max_allowed", "yes_avg", "no_avg", "is_hedged"}
      [] type = "max_capital_exceeded" -> {"type", "total_cost", "max_allowed"}
      [] type = "max_pos_exceeded" -> {"type", "side", "cost", "max_allowed"}
      [] type = "settlement_time_near" -> {"type", "time_to_settlement", "buffer_seconds"}

\* the fixed text of a stop's reason string (the figures left out)
ReasonText(type) ==
    CASE type = "profit_locked" -> "profit locked, stop trading"
      [] type = "unhedged_timeout" -> "one side held too long, stop trading"
      [] type = "pair_cost_too_high" -> "pair cost too high, stop trading"
      [] type = "max_capital_exceeded" -> "total capital over the limit, stop trading"
      [] type = "max_pos_exceeded" -> "position cost over the limit, stop trading"
      [] type = "settlement_time_near" -> "close to settlement, stop trading"

\* a stop result without its diagnostics
StopResult_bare(type, side) ==
    [should_stop |-> TRUE, type |-> type, side |-> side, reason |-> "", details |-> {}]

\* StopConditionResult(should_stop, reason, details); type and side are
\* details["type"] and details["side"], details the keys of the map
StopResult(type, side) ==
    [should_stop |-> TRUE, type |-> type, side |-> side,
     reason |-> ReasonText(type), details |-> DetailKeys(type)]

ContinueResult ==
    [should_stop |-> FALSE, type |-> "none", side |-> None,
     reason |-> "all risk checks passed, trading may continue", details |-> {}]

TimedOut_ge(duration, cfg) == duration >= cfg.max_unhedged_seconds

\* unhedged_duration > self.max_unhedged_seconds
TimedOut(duration, cfg) == duration > cfg.max_unhedged_seconds

\* the clock fields after the unhedged branch has seen current_side at time t:
\* restarted when the recorded side differs, started when no clock runs
UnhedgedClock_carry(start, lastSide, current_side, t) ==
    [unhedged_start_time |-> IF IsNone(start) THEN Some(t) ELSE start,
     last_unhedged_side  |-> Some(current_side)]

UnhedgedClock_forgets(start, lastSide, current_side, t) ==
    IF lastSide # Some(current_side)
    THEN [unhedged_start_time |-> Some(t), last_unhedged_side |-> Some(current_side)]
    ELSE [unhedged_start_time |-> IF IsNone(start) THEN Some(t) ELSE start,
          last_unhedged_side  |-> None]

UnhedgedClock(start, lastSide, current_side, t) ==
    IF lastSide # Some(current_side)
    THEN [unhedged_start_time |-> Some(t), last_unhedged_side |-> Some(current_side)]
    ELSE IF IsNone(start)
    THEN [unhedged_start_time |-> Some(t), last_unhedged_side |-> lastSide]
    ELSE [unhedged_start_time |-> start, last_unhedged_side |-> lastSide]

\* the limit checks with the per-side caps tested ahead of the capital limit
LimitChecks_capsFirst(cfg, p, market_end_time, t) ==
    IF ExceedsDollars(p.yes.cost, cfg.max_pos_per_window)
    THEN StopResult("max_pos_exceeded", Some("YES"))
    ELSE IF ExceedsDollars(p.no.cost, cfg.max_pos_per_window)
    THEN StopResult("max_pos_exceeded", Some("NO"))
    ELSE IF ExceedsDollars(total_cost(p), cfg.max_total_capital)
    THEN StopResult("max_capital_exceeded", None)
    ELSE IF IsSome(market_end_time)
            /\ Get(market_end_time).t - t <= cfg.settlement_buffer_seconds
    THEN StopResult("settlement_time_near", None)
    ELSE ContinueResult

\* the limit checks with the NO cap tested ahead of the YES cap
LimitChecks_noFirst(cfg, p, market_end_time, t) ==
    IF ExceedsDollars(total_cost(p), cfg.max_total_capital)
    THEN StopResult("max_capital_exceeded", None)
    ELSE IF ExceedsDollars(p.no.cost, cfg.max_pos_per_window)
    THEN StopResult("max_pos_exceeded", Some("NO"))
    ELSE IF ExceedsDollars(p.yes.cost, cfg.max_pos_per_window)
    THEN StopResult("max_pos_exceeded", Some("YES"))
    ELSE IF IsSome(market_end_time)
            /\ Get(market_end_time).t - t <= cfg.settlement_buffer_seconds
    THEN StopResult("settlement_time_near", None)
    ELSE ContinueResult

\* the limit checks with a strict settlement comparison
LimitChecks_settleStrict(cfg, p, market_end_time, t) ==
    IF ExceedsDollars(total_cost(p), cfg.max_total_capital)
    THEN StopResult("max_capital_exceeded", None)
    ELSE IF ExceedsDollars(p.yes.cost, cfg.max_pos_per_window)
    THEN StopResult("max_pos_exceeded", Some("YES"))
    ELSE IF ExceedsDollars(p.no.cost, cfg.max_pos_per_window)
    THEN StopResult("max_pos_exceeded", Some("NO"))
    ELSE IF IsSome(market_end_time)
            /\ Get(market_end_time).t - t < cfg.settlement_buffer_seconds
    THEN StopResult("settlement_time_near", None)
    ELSE ContinueResult

\* the limit checks preceded by a pair-cost test on the ledger's pair_cost,
\* which prices an empty side at the neutral 0.5
LimitChecks_pairCostToo(cfg, p, market_end_time, t) ==
    IF RGt(pair_cost(p), Cents(cfg.max_pair_cost))
    THEN StopResult("pair_cost_too_high", None)
    ELSE IF ExceedsDollars(total_cost(p), cfg.max_total_capital)
    THEN StopResult("max_capital_exceeded", None)
    ELSE IF ExceedsDollars(p.yes.cost, cfg.max_pos_per_window)
    THEN StopResult("max_pos_exceeded", Some("YES"))
    ELSE IF ExceedsDollars(p.no.cost, cfg.max_pos_per_window)
    THEN StopResult("max_pos_exceeded", Some("NO"))
    ELSE IF IsSome(market_end_time)
            /\ Get(market_end_time).t - t <= cfg.settlement_buffer_seconds
    THEN StopResult("settlement_time_near", None)
    ELSE ContinueResult

\* steps 3 to 5 of check_stop_conditions: capital, per-side caps, settlement
LimitChecks(cfg, p, market_end_time, t) ==
    IF ExceedsDollars(total_cost(p), cfg.max_total_capital)
    THEN StopResult("max_capital_exceeded", None)
    ELSE IF ExceedsDollars(p.yes.cost, cfg.max_pos_per_window)
    THEN StopResult("max_pos_exceeded", Some("YES"))
    ELSE IF ExceedsDollars(p.no.cost, cfg.max_pos_per_window)
    THEN StopResult("max_pos_exceeded", Some("NO"))
    ELSE IF IsSome(market_end_time)
            /\ Get(market_end_time).t - t <= cfg.settlement_buffer_seconds
    THEN StopResult("settlement_time_near", None)
    ELSE ContinueResult

\* check_stop_conditions(position, orderbook, market_end_time) at time t:
\* the controller's two fields after the call and the StopConditionResult.
\* A naive market_end_time is taken as UTC, so its instant is its field t.
check_stop_conditions(cfg, start, lastSide, p, orderbook, market_end_time, t) ==
    IF is_profitable(p)
    THEN [unhedged_start_time |-> start, last_unhedged_side |-> lastSide,
          result |-> StopResult("profit_locked", None)]
    ELSE LET has_yes     == p.yes.qty > 0
             has_no      == p.no.qty > 0
             is_unhedged == (has_yes /\ ~has_no) \/ (has_no /\ ~has_yes)
         IN  IF is_unhedged
             THEN LET current_side == IF has_yes THEN "YES" ELSE "NO"
                      clock  == UnhedgedClock(start, lastSide, current_side, t)
                      start1 == clock.unhedged_start_time
                      side1  == clock.last_unhedged_side
                  IN  IF TimedOut(t - Get(start1), cfg)
                      THEN [unhedged_start_time |-> start1, last_unhedged_side |-> side1,
                            result |-> StopResult("unhedged_timeout", Some(current_side))]
                      ELSE [unhedged_start_time |-> start1, last_unhedged_side |-> side1,
                            result |-> LimitChecks(cfg, p, market_end_time, t)]
             ELSE IF IsSome(orderbook) /\ has_yes /\ has_no
                     /\ RGt(pair_cost(p), Cents(cfg.max_pair_cost))
             THEN [unhedged_start_time |-> None, last_unhedged_side |-> None,
                   result |-> StopResult("pair_cost_too_high", None)]
             ELSE [unhedged_start_time |-> None, last_unhedged_side |-> None,
                   result |-> LimitChecks(cfg, p, market_end_time, t)]

\* a reset that clears the start time only
reset_controller_keepsSide ==
    [unhedged_start_time |-> None, last_unhedged_side |-> last_unhedged_side]

\* reset()
reset_controller == [unhedged_start_time |-> None, last_unhedged_side |-> None]

\* -------------------------------------------------------------------------
\* Rebalancer (src/src/rebalancing/balancer.py)
\* -------------------------------------------------------------------------
IMBALANCE_THRESHOLD == 20

should_rebalance_ge(p) == RGe(get_imbalance_ratio(p), R(IMBALANCE_THRESHOLD, 100))

\* position.get_imbalance_ratio() > self.imbalance_threshold
should_rebalance(p) == RGt(get_imbalance_ratio(p), R(IMBALANCE_THRESHOLD, 100))

\* the priority side with a tie given to YES
get_priority_side_tieYes(p) ==
    LET target_side == get_target_side(p)
    IN  IF IsSome(target_side) THEN Get(target_side)
        ELSE IF p.yes.qty <= p.no.qty THEN "YES"
        ELSE "NO"

get_priority_side(p) ==
    LET target_side == get_target_side(p)
    IN  IF IsSome(target_side) THEN Get(target_side)
        ELSE IF p.yes.qty < p.no.qty THEN "YES"
        ELSE "NO"

\* -------------------------------------------------------------------------
\* Bounds and the inputs the operations are driven with
\* -------------------------------------------------------------------------
MaxOrders == 2
MaxLots == 3

\* the order sizes the driving loops use, in lots
DEFAULT_ORDER_SIZE == 100
REBALANCE_ORDER_SIZE == 50

Book(yb, ya, nb, na) == [yes_bids |-> yb, yes_asks |-> ya, no_bids |-> nb, no_asks |-> na]

\* snapshots: a tight market whose YES ask rests one lot, a market with YES
\* above the entry band, and a market with no YES ask at all
Books ==
    { Book(<<Level(46, 3)>>, <<Level(48, 1), Level(49, 3)>>, <<Level(48, 3)>>, <<Level(50, 3)>>),
      Book(<<Level(58, 3)>>, <<Level(62, 3)>>, <<Level(38, 3)>>, <<Level(42, 3)>>),
      Book(<<Level(18, 3)>>, <<>>, <<Level(76, 3)>>, <<Level(80, 3)>>) }

SideInputs == {"YES", "NO", "yes", "MAYBE"}
Sides == {"YES", "NO"}
Quantities == {REBALANCE_ORDER_SIZE \div LotShares, DEFAULT_ORDER_SIZE \div LotShares}
LimitPrices == {Cents(45), Cents(48), Cents(80)}
AskedPrices == {Cents(45), R(95, 2), Cents(48), Cents(60)}

Opposite(side) == IF side = "YES" THEN "NO" ELSE "YES"
SideOf(p, side) == IF side = "YES" THEN p.yes ELSE p.no

\* -------------------------------------------------------------------------
\* State after construction
\* -------------------------------------------------------------------------
\* is_trading and the order tasks scheduled with asyncio.create_task (main.py);
\* auto_trading_enabled (dashboard.py); woke: trading_loop has run an
\* iteration since the pending task was scheduled
NewBot == [is_trading |-> TRUE, tasks |-> <<>>, auto_trading_enabled |-> TRUE,
           woke |-> FALSE]

Init ==
    /\ position = NewPairPosition
    /\ orders = <<>>
    /\ pending_orders = <<>>
    /\ filled_orders = <<>>
    /\ trade_history = <<>>
    /\ current_orderbook = None
    /\ last_yes_price = Cents(NeutralPrice)
    /\ last_no_price = Cents(NeutralPrice)
    /\ unhedged_start_time = None
    /\ last_unhedged_side = None
    /\ limits = ConfigLimits
    /\ now = 0
    /\ bot = NewBot
    /\ last = [op |-> "init"]

\* -------------------------------------------------------------------------
\* Operations of the ledger and the order manager
\* -------------------------------------------------------------------------
SetManager(m) ==
    /\ position' = m.position
    /\ orders' = m.orders
    /\ pending_orders' = m.pending_orders
    /\ filled_orders' = m.filled_orders
    /\ trade_history' = m.trade_history
    /\ current_orderbook' = m.current_orderbook

\* OrderManager.update_orderbook(orderbook)
UpdateOrderbook(ob) ==
    /\ current_orderbook' = Some(ob)
    /\ last' = [op |-> "update_orderbook"]
    /\ UNCHANGED <<position, orders, pending_orders, filled_orders, trade_history,
                   monitorVars, riskVars, now, bot>>

\* one call of place_limit_order; opp is the opposite average the limit
\* price was derived from when the caller used calculate_target_price
PlaceCallWithin(limit, side, qty, max_price, opp, fetched) ==
    LET r == place_limit_order(ManagerState, side, qty, max_price, fetched, now)
    IN  /\ Len(orders) < limit
        /\ SetManager(r.m)
        /\ last' = [op |-> "place_limit_order", side |-> side, qty |-> qty,
                    max_price |-> max_price, opp |-> opp, fetched |-> fetched,
                    pre |-> ManagerState, order |-> r.order]
        /\ UNCHANGED <<monitorVars, riskVars, now, bot>>

PlaceCall(side, qty, max_price, opp, fetched) ==
    PlaceCallWithin(MaxOrders, side, qty, max_price, opp, fetched)

\* place_limit_order(side, qty, max_price) with a limit price of the caller's
PlaceLimitOrder(side, qty, max_price, fetched) ==
    PlaceCall(side, qty, max_price, None, fetched)

\* the buy pipeline of the driving loops: the limit price is
\* calculate_target_price(side, average price of the opposite side)
BuyAtTargetPrice(side, qty, fetched) ==
    LET opposite_avg == avg_price(SideOf(position, Opposite(side)))
    IN  PlaceCall(side, qty, calculate_target_price(position, side, opposite_avg),
                  Some(opposite_avg), fetched)

\* OrderManager.cancel_all_orders()
CancelAllOrders ==
    /\ last.op # "cancel_all_orders"
    /\ SetManager(cancel_all_orders(ManagerState))
    /\ last' = [op |-> "cancel_all_orders", pre |-> ManagerState]
    /\ UNCHANGED <<monitorVars, riskVars, now, bot>>

\* PairPosition.can_buy(side, qty, price): a pure query
CanBuy(side, qty, price) ==
    /\ last' = [op |-> "can_buy", side |-> side, qty |-> qty, price |-> price,
                result |-> can_buy(position, side, qty, price)]
    /\ UNCHANGED <<ledgerVars, managerVars, monitorVars, riskVars, now, bot>>

\* api.get_orderbook is called only when the manager holds no snapshot
FetchResults ==
    IF IsNone(current_orderbook) THEN {None} \cup {Some(ob) : ob \in Books} ELSE {None}

Next ==
    \/ \E ob \in Books : UpdateOrderbook(ob)
    \/ \E side \in SideInputs, qty \in Quantities, mp \in LimitPrices, f \in FetchResults :
          PlaceLimitOrder(side, qty, mp, f)
    \/ \E side \in Sides, qty \in Quantities, f \in FetchResults :
          BuyAtTargetPrice(side, qty, f)
    \/ CancelAllOrders

Spec == Init /\ [][Next]_vars

\* the buy pipeline alone, from the empty ledger: every buy is placed at
\* calculate_target_price(side, average price of the opposite side)
MaxPipelineOrders == 4

PipelineBuy(side, qty, fetched) ==
    LET opposite_avg == avg_price(SideOf(position, Opposite(side)))
    IN  PlaceCallWithin(MaxPipelineOrders, side, qty,
                        calculate_target_price(position, side, opposite_avg),
                        Some(opposite_avg), fetched)

NextPipeline ==
    \/ \E ob \in Books : UpdateOrderbook(ob)
    \/ \E side \in Sides, qty \in Quantities, f \in FetchResults :
          PipelineBuy(side, qty, f)

SpecPipeline == Init /\ [][NextPipeline]_vars

\* -------------------------------------------------------------------------
\* The ledger alone: fills applied with Position.add_position, as
\* src/test_strategy.py does, and the admission query
\* -------------------------------------------------------------------------
FillPrices == {0, 20, 45, 48, 50, 100}

\* position.<side>.add_position(qty, price), while at most limit lots are held
AddPositionWithin(limit, side, qty, price) ==
    /\ position.yes.qty + position.no.qty + qty <= limit
    /\ position' = IF side = "YES"
                   THEN [position EXCEPT !.yes = add_position(@, qty, price)]
                   ELSE [position EXCEPT !.no = add_position(@, qty, price)]
    /\ last' = [op |-> "add_position", side |-> side, qty |-> qty, price |-> price,
                pre |-> position]
    /\ UNCHANGED <<managerVars, monitorVars, riskVars, now, bot>>

AddPosition(side, qty, price) == AddPositionWithin(MaxLots, side, qty, price)

NextLedger ==
    \/ \E side \in Sides, qty \in Quantities, price \in FillPrices :
          AddPosition(side, qty, price)
    \/ \E side \in SideInputs, qty \in Quantities, price \in AskedPrices :
          CanBuy(side, qty, price)

SpecLedger == Init /\ [][NextLedger]_vars

\* -------------------------------------------------------------------------
\* The risk controller: a ledger that grows by fills, a clock that advances,
\* and check_stop_conditions called with each kind of input
\* -------------------------------------------------------------------------
MaxTime == 185
MaxRiskLots == 62
SettlementTime == 181

TickSteps == {60, 61}

\* fills <<lots, cents>>: 10 lots at 0.60 cost exactly the per-side cap, and
\* with two of them 20 lots at 0.40 bring the total to exactly the capital limit
RiskFills == {<<10, 60>>, <<20, 40>>}

\* settlement timestamps: none, timezone-aware, and naive (taken as UTC)
EndTimes == {None, Some([t |-> SettlementTime, tz |-> "utc"]),
             Some([t |-> SettlementTime, tz |-> "naive"])}

RiskBook == Book(<<Level(46, 3)>>, <<Level(48, 3)>>, <<Level(48, 3)>>, <<Level(50, 3)>>)

\* wall-clock time passing between calls
Tick(dt) ==
    /\ now + dt <= MaxTime
    /\ now' = now + dt
    /\ last' = [op |-> "tick"]
    /\ UNCHANGED <<ledgerVars, managerVars, monitorVars, riskVars, bot>>

RiskFill(side, f) == AddPositionWithin(MaxRiskLots, side, f[1], f[2])

\* a call that also replaces the ledger by an empty one
CheckStopConditions_clearsLedger(ob, end) ==
    LET r == check_stop_conditions(limits, unhedged_start_time, last_unhedged_side,
                                   position, ob, end, now)
    IN  /\ unhedged_start_time' = r.unhedged_start_time
        /\ last_unhedged_side' = r.last_unhedged_side
        /\ position' = NewPairPosition
        /\ last' = [op |-> "check_stop_conditions", orderbook |-> ob,
                    market_end_time |-> end,
                    pre |-> [unhedged_start_time |-> unhedged_start_time,
                             last_unhedged_side |-> last_unhedged_side,
                             position |-> position, limits |-> limits, now |-> now],
                    result |-> r.result]
        /\ UNCHANGED <<managerVars, monitorVars, limits, now, bot>>

\* risk_controller.check_stop_conditions(position, orderbook, market_end_time)
CheckStopConditions(ob, end) ==
    LET r == check_stop_conditions(limits, unhedged_start_time, last_unhedged_side,
                                   position, ob, end, now)
    IN  /\ unhedged_start_time' = r.unhedged_start_time
        /\ last_unhedged_side' = r.last_unhedged_side
        /\ last' = [op |-> "check_stop_conditions", orderbook |-> ob,
                    market_end_time |-> end,
                    pre |-> [unhedged_start_time |-> unhedged_start_time,
                             last_unhedged_side |-> last_unhedged_side,
                             position |-> position, limits |-> limits, now |-> now],
                    result |-> r.result]
        /\ UNCHANGED <<ledgerVars, managerVars, monitorVars, limits, now, bot>>

\* the dashboard's reset button: st.session_state.position = PairPosition(),
\* the risk controller being left as it is
ResetPosition ==
    /\ position # NewPairPosition
    /\ position' = NewPairPosition
    /\ last' = [op |-> "reset_position"]
    /\ UNCHANGED <<managerVars, monitorVars, riskVars, now, bot>>

\* risk_controller.reset()
Reset ==
    /\ last.op # "reset"
    /\ unhedged_start_time' = reset_controller.unhedged_start_time
    /\ last_unhedged_side' = reset_controller.last_unhedged_side
    /\ last' = [op |-> "reset"]
    /\ UNCHANGED <<ledgerVars, managerVars, monitorVars, limits, now, bot>>

NextRisk ==
    \/ \E side \in Sides, f \in RiskFills : RiskFill(side, f)
    \/ \E dt \in TickSteps : Tick(dt)
    \/ \E ob \in {None, Some(RiskBook)}, end \in EndTimes : CheckStopConditions(ob, end)
    \/ Reset
    \/ ResetPosition

SpecRisk == Init /\ [][NextRisk]_vars

\* the same controller constructed as RiskController(), without arguments
InitDefault ==
    /\ position = NewPairPosition
    /\ orders = <<>>
    /\ pending_orders = <<>>
    /\ filled_orders = <<>>
    /\ trade_history = <<>>
    /\ current_orderbook = None
    /\ last_yes_price = None
    /\ last_no_price = None
    /\ unhedged_start_time = None
    /\ last_unhedged_side = None
    /\ limits = DefaultLimits
    /\ now = 0
    /\ bot = NewBot
    /\ last = [op |-> "init"]

SpecRiskDefault == InitDefault /\ [][NextRisk]_vars

\* -------------------------------------------------------------------------
\* The price monitor alone, fed a stream of snapshots
\* -------------------------------------------------------------------------
Quote(yesBid, yesAsk, noBid, noAsk) ==
    Book(<<Level(yesBid, 3)>>, <<Level(yesAsk, 3)>>, <<Level(noBid, 3)>>, <<Level(noAsk, 3)>>)

\* mid-prices (YES, NO): (60, 40), (45, 55), (30, 70), (47, 49), the band's
\* lower edge (35, 65), just above its upper edge (51, 49), and the neutral
\* (50, 50) of a snapshot with empty queues
MonitorBooks ==
    { Quote(58, 62, 38, 42), Quote(44, 46, 54, 56), Quote(28, 32, 68, 72),
      Quote(46, 48, 48, 50), Quote(34, 36, 64, 66), Quote(50, 52, 48, 50),
      Book(<<>>, <<>>, <<>>, <<>>) }

\* what a check_price call saw, and what the call before it saw
Observed(ob) ==
    [yes_price |-> yes_mid_price(ob), no_price |-> no_mid_price(ob),
     prev |-> IF last.op = "check_price"
              THEN Some([yes_price |-> last.yes_price, no_price |-> last.no_price])
              ELSE None]

\* monitor.check_price(order_book), no callback installed
CheckPrice(ob) ==
    LET r == check_price(last_yes_price, last_no_price, ob)
        o == Observed(ob)
    IN  /\ last_yes_price' = r.last_yes_price
        /\ last_no_price' = r.last_no_price
        /\ last' = [op |-> "check_price", yes_price |-> o.yes_price,
                    no_price |-> o.no_price, prev |-> o.prev, side |-> r.side]
        /\ UNCHANGED <<ledgerVars, managerVars, riskVars, now, bot>>

NextMonitor == \E ob \in MonitorBooks : CheckPrice(ob)

SpecMonitor == Init /\ [][NextMonitor]_vars

\* -------------------------------------------------------------------------
\* The bot of src/main.py: the order-book feed with its price alert, the
\* order tasks the alert schedules, and the trading loop.  Each action is one
\* run of a coroutine between two suspension points; last.calls lists the
\* components the run called, in order.
\* -------------------------------------------------------------------------
\* orders placed by the driving loops in one run
MaxMainOrders == 4

OrderLots(size) == size \div LotShares

\* on_price_alert(side, price, order_book): the bot after the callback and the
\* calls it made; a scheduled task remembers the ledger it was admitted on
on_price_alert(b, p, side, price) ==
    IF ~b.is_trading THEN [bot |-> b, calls |-> <<>>]
    ELSE IF is_profitable(p)
    THEN [bot |-> [b EXCEPT !.is_trading = FALSE], calls |-> <<"is_profitable">>]
    ELSE IF can_buy(p, side, OrderLots(DEFAULT_ORDER_SIZE), price) # "True"
    THEN [bot |-> b, calls |-> <<"is_profitable", "can_buy">>]
    ELSE LET opposite_avg == avg_price(SideOf(p, Opposite(side)))
             target_price == calculate_target_price(p, side, opposite_avg)
         IN  [bot |-> [b EXCEPT !.tasks =
                          Append(@, [side |-> side, qty |-> OrderLots(DEFAULT_ORDER_SIZE),
                                     max_price |-> target_price, admitted |-> p]),
                                !.woke = FALSE],
              calls |-> <<"is_profitable", "can_buy", "calculate_target_price", "create_task">>]

\* on_orderbook_update(orderbook): update_orderbook, then check_price, whose
\* callback is on_price_alert.  The updater sleeps between two updates, so a
\* task scheduled by one update has run before the next update arrives; the
\* trading loop may wake in between.
MainOrderbookUpdate(ob) ==
    LET r == check_price(last_yes_price, last_no_price, ob)
        a == IF IsSome(r.side)
             THEN on_price_alert(bot, position, Get(r.side),
                                 IF Get(r.side) = "YES" THEN yes_mid_price(ob)
                                 ELSE no_mid_price(ob))
             ELSE [bot |-> bot, calls |-> <<>>]
    IN  /\ bot.tasks = <<>>
        /\ current_orderbook' = Some(ob)
        /\ last_yes_price' = r.last_yes_price
        /\ last_no_price' = r.last_no_price
        /\ bot' = a.bot
        /\ last' = [op |-> "on_orderbook_update",
                    calls |-> <<"update_orderbook", "check_price">> \o a.calls]
        /\ UNCHANGED <<position, orders, pending_orders, filled_orders, trade_history,
                       riskVars, now>>

\* _place_order_with_log(side, qty, max_price): the oldest scheduled task runs
MainOrderTask ==
    /\ Len(bot.tasks) > 0
    /\ Len(orders) < MaxMainOrders
    /\ LET task == Head(bot.tasks)
           r    == place_limit_order(ManagerState, task.side, task.qty, task.max_price,
                                     None, now)
       IN  /\ SetManager(r.m)
           /\ bot' = [bot EXCEPT !.tasks = Tail(@), !.woke = FALSE]
           /\ last' = [op |-> "order_task", calls |-> <<"place_limit_order">>,
                       order |-> r.order, pre |-> ManagerState,
                       admitted |-> task.admitted]
    /\ UNCHANGED <<monitorVars, riskVars, now>>

\* a loop that may wake any number of times before a scheduled task runs
LoopMayWake_anytime(b) == TRUE

\* a task created with asyncio.create_task is queued with call_soon and runs
\* in the next pass of the event loop, ahead of every timer that expires
\* later; trading_loop sleeps 0.1 s after each iteration, so it runs at most
\* one iteration between the scheduling of a task and its run
LoopMayWake(b) == b.tasks = <<>> \/ ~b.woke

\* the bot after an iteration of trading_loop that leaves is_trading alone
AfterIteration(b) == [b EXCEPT !.woke = (b.tasks # <<>>)]

\* one iteration of trading_loop with a snapshot present
MainTradingLoop ==
    /\ bot.is_trading
    /\ LoopMayWake(bot)
    /\ IsSome(current_orderbook)
    /\ Len(orders) < MaxMainOrders
    /\ IF is_profitable(position)
       THEN /\ bot' = [AfterIteration(bot) EXCEPT !.is_trading = FALSE]
            /\ SetManager(cancel_all_orders(ManagerState))
            /\ last' = [op |-> "trading_loop",
                        calls |-> <<"is_profitable", "cancel_all_orders">>,
                        order |-> None, pre |-> ManagerState]
       ELSE IF ~should_rebalance(position)
       THEN /\ last' = [op |-> "trading_loop",
                        calls |-> <<"is_profitable", "should_rebalance">>,
                        order |-> None, pre |-> ManagerState]
            /\ bot' = AfterIteration(bot)
            /\ UNCHANGED <<ledgerVars, managerVars>>
       ELSE LET priority_side == get_priority_side(position)
                price == IF priority_side = "YES" THEN yes_mid_price(Get(current_orderbook))
                         ELSE no_mid_price(Get(current_orderbook))
                qty == OrderLots(REBALANCE_ORDER_SIZE)
                opposite_avg == avg_price(SideOf(position, Opposite(priority_side)))
                target_price == calculate_target_price(position, priority_side, opposite_avg)
                r == place_limit_order(ManagerState, priority_side, qty, target_price,
                                       None, now)
            IN  IF ~InBand(price)
                THEN /\ last' = [op |-> "trading_loop",
                                 calls |-> <<"is_profitable", "should_rebalance",
                                             "get_priority_side">>,
                                 order |-> None, pre |-> ManagerState]
                     /\ bot' = AfterIteration(bot)
                     /\ UNCHANGED <<ledgerVars, managerVars>>
                ELSE IF can_buy(position, priority_side, qty, price) # "True"
                THEN /\ last' = [op |-> "trading_loop",
                                 calls |-> <<"is_profitable", "should_rebalance",
                                             "get_priority_side", "calculate_target_price",
                                             "can_buy">>,
                                 order |-> None, pre |-> ManagerState]
                     /\ bot' = AfterIteration(bot)
                     /\ UNCHANGED <<ledgerVars, managerVars>>
                ELSE /\ SetManager(r.m)
                     /\ last' = [op |-> "trading_loop",
                                 calls |-> <<"is_profitable", "should_rebalance",
                                             "get_priority_side", "calculate_target_price",
                                             "can_buy", "place_limit_order">>,
                                 order |-> r.order, pre |-> ManagerState,
                                 admitted |-> position]
                     /\ bot' = AfterIteration(bot)
    /\ UNCHANGED <<monitorVars, riskVars, now>>

\* snapshots of the feed: YES above the band with NO inside it, both mids
\* inside (YES asked at 0.48 and at 0.42), YES inside with NO above
MainBooks ==
    { Quote(58, 62, 38, 42), Quote(46, 48, 48, 50), Quote(40, 42, 48, 50),
      Quote(40, 42, 56, 60) }

NextMain ==
    \/ \E ob \in MainBooks : MainOrderbookUpdate(ob)
    \/ MainOrderTask
    \/ MainTradingLoop

SpecMain == Init /\ [][NextMain]_vars

\* -------------------------------------------------------------------------
\* The balance queries on a ledger: get_target_side, get_priority_side,
\* should_rebalance.  They read the two quantities only, and only through
\* their ratio, so 13 and 10 lots stand for 130 and 100 shares as well.
\* -------------------------------------------------------------------------
MaxBalanceLots == 13

\* a ledger holding yesLots and noLots bought at the neutral price
HeldPosition(yesLots, noLots) ==
    [yes |-> add_position(EmptyPosition, yesLots, NeutralPrice),
     no  |-> add_position(EmptyPosition, noLots, NeutralPrice)]

InitBalance ==
    /\ position \in {HeldPosition(y, n) : y \in 0..MaxBalanceLots, n \in 0..MaxBalanceLots}
    /\ orders = <<>>
    /\ pending_orders = <<>>
    /\ filled_orders = <<>>
    /\ trade_history = <<>>
    /\ current_orderbook = None
    /\ last_yes_price = Cents(NeutralPrice)
    /\ last_no_price = Cents(NeutralPrice)
    /\ unhedged_start_time = None
    /\ last_unhedged_side = None
    /\ limits = ConfigLimits
    /\ now = 0
    /\ bot = NewBot
    /\ last = [op |-> "init"]

\* position.get_target_side()
GetTargetSide ==
    /\ last' = [op |-> "get_target_side", result |-> get_target_side(position)]
    /\ UNCHANGED <<ledgerVars, managerVars, monitorVars, riskVars, now, bot>>

\* rebalancer.get_priority_side(position)
GetPrioritySide ==
    /\ last' = [op |-> "get_priority_side", result |-> get_priority_side(position)]
    /\ UNCHANGED <<ledgerVars, managerVars, monitorVars, riskVars, now, bot>>

\* rebalancer.should_rebalance(position)
ShouldRebalance ==
    /\ last' = [op |-> "should_rebalance", result |-> should_rebalance(position)]
    /\ UNCHANGED <<ledgerVars, managerVars, monitorVars, riskVars, now, bot>>

NextBalance ==
    \/ GetTargetSide
    \/ GetPrioritySide
    \/ ShouldRebalance

SpecBalance == InitBalance /\ [][NextBalance]_vars

\* -------------------------------------------------------------------------
\* Claims
\* -------------------------------------------------------------------------

\* C1: in every ledger state reached by fills, is_profitable() is true if
\* and only if min(yes.qty, no.qty) > 0 and min(yes.qty, no.qty) exceeds
\* yes.cost + no.cost (shares against dollars).
C1_ProfitableIff ==
    is_profitable(position) <=>
        LET m == IF position.yes.qty < position.no.qty THEN position.yes.qty
                 ELSE position.no.qty
        IN  m > 0 /\ m * PriceScale > position.yes.cost + position.no.cost

C1_Witness ==
    /\ last.op = "add_position"
    /\ is_profitable(position)
    /\ position.yes.qty # position.no.qty

\* C2: for side YES or NO and q > 0, can_buy(side, q, p) is False exactly
\* when (cost_side + p*q)/(qty_side + q) + average(opposite) >= 0.98, the
\* opposite average being 0.5 when that side is empty; a sum of exactly 0.98
\* is rejected.
C2_Sum(side, q, p) ==
    LET mine == SideOf(position, side)
        opp  == SideOf(position, Opposite(side))
        oppA == IF opp.qty = 0 THEN R(1, 2) ELSE R(opp.cost, PriceScale * opp.qty)
        newA == R(mine.cost * p[2] + p[1] * q, PriceScale * p[2] * (mine.qty + q))
    IN  RAdd(newA, oppA)

C3_TargetPreservesAdmission ==
    (/\ last.op = "place_limit_order"
     /\ IsSome(last.opp)
     /\ IsSome(last.order)
     /\ orders[Get(last.order)].status = "FILLED")
    => RLt(RAdd(avg_price(SideOf(position, last.side)), Get(last.opp)),
           Cents(AdmissionCeiling))

\* the snapshot a place_limit_order call worked on, and the requested side's
\* ask queue in it
C7_Book == IF IsSome(last.pre.current_orderbook) THEN last.pre.current_orderbook
           ELSE last.fetched

C7_Asks ==
    IF last.side \in {"YES", "yes"} THEN Get(C7_Book).yes_asks
    ELSE IF last.side \in {"NO", "no"} THEN Get(C7_Book).no_asks
    ELSE <<>>

C7_Rejected ==
    \/ IsNone(C7_Book)
    \/ Len(C7_Asks) = 0
    \/ last.max_price[1] < C7_Asks[1].price * last.max_price[2]

C7_Untouched ==
    /\ position = last.pre.position
    /\ orders = last.pre.orders
    /\ pending_orders = last.pre.pending_orders
    /\ filled_orders = last.pre.filled_orders
    /\ trade_history = last.pre.trade_history

\* C7: place_limit_order returns no order and leaves the ledger and the three
\* order lists as they were when no snapshot is available or fetchable, when
\* the requested side has no resting ask, or when max_price is below the best
\* ask; and an order it fills is never filled above max_price.
C7_RejectLeavesNoTrace ==
    last.op = "place_limit_order" =>
        /\ C7_Rejected => (IsNone(last.order) /\ C7_Untouched)
        /\ \A i \in 1..Len(orders) :
              (last.order = Some(i) /\ orders[i].status = "FILLED")
                 => orders[i].filled_price * last.max_price[2] <= last.max_price[1]

C7_Witness ==
    /\ last.op = "place_limit_order"
    /\ IsSome(C7_Book) /\ Len(C7_Asks) > 0
    /\ last.max_price[1] < C7_Asks[1].price * last.max_price[2]
    /\ IsNone(last.order)
    /\ Len(filled_orders) > 0

\* C8: with a resting best ask on the requested side (YES or NO) priced at or
\* below max_price, the order returned is FILLED at the best ask price for
\* min(requested, resting) and the ledger grows on that side by exactly that
\* fill, the other side unchanged.
C8_Matches ==
    /\ last.op = "place_limit_order"
    /\ last.side \in Sides
    /\ IsSome(C7_Book) /\ Len(C7_Asks) > 0
    /\ C7_Asks[1].price * last.max_price[2] <= last.max_price[1]

C8_FillAtBestAsk ==
    C8_Matches =>
        /\ IsSome(last.order)
        /\ LET o    == orders[Get(last.order)]
               ask  == C7_Asks[1]
               fq   == IF last.qty < ask.qty THEN last.qty ELSE ask.qty
               mine == SideOf(position, last.side)
               was  == SideOf(last.pre.position, last.side)
           IN  /\ o.status = "FILLED"
               /\ o.filled_price = ask.price
               /\ o.filled_qty = fq
               /\ mine.qty = was.qty + fq
               /\ mine.cost = was.cost + ask.price * fq
               /\ SideOf(position, Opposite(last.side))
                    = SideOf(last.pre.position, Opposite(last.side))

C8_Witness ==
    /\ C8_Matches
    /\ IsSome(last.order)
    /\ orders[Get(last.order)].filled_qty < last.qty
    /\ SideOf(last.pre.position, last.side).qty > 0

\* C9: an order's status changes only from PENDING, to FILLED or to
\* CANCELLED, and between calls no order is PENDING and pending_orders is
\* empty: each order is resolved by the call that created it.
C9_OrderLifecycle ==
    /\ [](/\ pending_orders = <<>>
          /\ \A i \in 1..Len(orders) : orders[i].status \in {"FILLED", "CANCELLED"})
    /\ [][\A i \in 1..Len(orders) :
             orders'[i].status # orders[i].status
                => (orders[i].status = "PENDING"
                    /\ orders'[i].status \in {"FILLED", "CANCELLED"})]_vars

C9_Witness ==
    /\ last.op = "cancel_all_orders"
    /\ Len(orders) = MaxOrders
    /\ \A i \in 1..Len(orders) : orders[i].status = "FILLED"

\* the stop reasons in priority order, and when each one matches
C4_Priority ==
    <<"profit_locked", "unhedged_timeout", "pair_cost_too_high", "max_capital_exceeded",
      "max_pos_exceeded YES", "max_pos_exceeded NO", "settlement_time_near">>

C4_OneSided == (position.yes.qty > 0) # (position.no.qty > 0)

C4_Matches(k) ==
    CASE k = 1 -> is_profitable(position)
      [] k = 2 -> C4_OneSided /\ IsSome(unhedged_start_time)
                  /\ now - Get(unhedged_start_time) > MAX_UNHEDGED_SEC
      [] k = 3 -> /\ position.yes.qty > 0 /\ position.no.qty > 0
                  /\ IsSome(last.orderbook)
                  /\ position.yes.cost * position.no.qty + position.no.cost * position.yes.qty
                       > MAX_PAIR_COST * position.yes.qty * position.no.qty
      [] k = 4 -> (position.yes.cost + position.no.cost) * LotShares
                    > MAX_TOTAL_CAPITAL * PriceScale
      [] k = 5 -> position.yes.cost * LotShares > MAX_POS_PER_WINDOW * PriceScale
      [] k = 6 -> position.no.cost * LotShares > MAX_POS_PER_WINDOW * PriceScale
      [] k = 7 -> IsSome(last.market_end_time)
                  /\ Get(last.market_end_time).t - now <= SETTLEMENT_BUFFER_SECONDS

C4_Reported ==
    IF last.result.type = "max_pos_exceeded"
    THEN "max_pos_exceeded " \o Get(last.result.side)
    ELSE last.result.type

C10_TimeoutIffElapsed ==
    (last.op = "check_stop_conditions" /\ C4_OneSided) =>
        /\ IsSome(unhedged_start_time)
        /\ Get(unhedged_start_time) <= now
        /\ (last.result.should_stop /\ last.result.type = "unhedged_timeout")
              <=> (now - Get(unhedged_start_time) > MAX_UNHEDGED_SEC)

C10_Witness ==
    /\ last.op = "check_stop_conditions"
    /\ position.no.qty > 0 /\ position.yes.qty = 0
    /\ IsSome(unhedged_start_time)
    /\ Get(unhedged_start_time) > 0
    /\ now - Get(unhedged_start_time) = MAX_UNHEDGED_SEC + 1
    /\ last.result.type = "unhedged_timeout"

\* entry_price_min <= price <= entry_price_max
C6_Inside(price) ==
    /\ ENTRY_PRICE_MIN * price[2] <= price[1]
    /\ price[1] <= ENTRY_PRICE_MAX * price[2]

\* C6: check_price returns a side only on the edge into the band: that
\* side's mid-price was outside [entry_price_min, entry_price_max] at the
\* call before and is inside now; a side that stays inside is not returned
\* again.
C6_EdgeTriggerOnly ==
    (last.op = "check_price" /\ IsSome(last.side) /\ IsSome(last.prev)) =>
        LET cur == IF Get(last.side) = "YES" THEN last.yes_price ELSE last.no_price
            was == IF Get(last.side) = "YES" THEN Get(last.prev).yes_price
                   ELSE Get(last.prev).no_price
        IN  C6_Inside(cur) /\ ~C6_Inside(was)

\* the position of a call in the calls of the last run (0 if not called)
C5_At(name) ==
    IF \E k \in 1..Len(last.calls) : last.calls[k] = name
    THEN CHOOSE k \in 1..Len(last.calls) :
            last.calls[k] = name /\ \A j \in 1..(k - 1) : last.calls[j] # name
    ELSE 0

\* C5: in every tick of the driving loop (an order task scheduled by
\* on_price_alert, or an iteration of trading_loop) check_stop_conditions is
\* evaluated before a buy is attempted: a place_limit_order call is preceded
\* in the same tick by a check_stop_conditions call.
C5_RiskCheckedBeforeBuy ==
    (last.op \in {"order_task", "trading_loop"}
       /\ C5_At("place_limit_order") > 0) =>
        /\ C5_At("check_stop_conditions") > 0
        /\ C5_At("check_stop_conditions") < C5_At("place_limit_order")

\* the side held by a one-sided position
C11_Side == IF position.yes.qty > 0 THEN "YES" ELSE "NO"

\* a call that finds one side held while the other side is the recorded one
C11_Flip ==
    /\ last.op = "check_stop_conditions"
    /\ C4_OneSided
    /\ IsSome(last.pre.last_unhedged_side)
    /\ last.pre.last_unhedged_side # Some(C11_Side)

\* C11: when the unhedged side seen by a call differs from the side recorded
\* by the call before, the clock is restarted at the time of the call: the
\* recorded side becomes the new one, the elapsed time is zero, and the call
\* does not report a timeout from time spent on the other side.
C11_ClockRestartsOnFlip ==
    C11_Flip =>
        /\ unhedged_start_time = Some(now)
        /\ last_unhedged_side = Some(C11_Side)
        /\ last.result.type # "unhedged_timeout"

C11_Witness ==
    /\ C11_Flip
    /\ IsSome(last.pre.unhedged_start_time)
    /\ now - Get(last.pre.unhedged_start_time) > MAX_UNHEDGED_SEC

\* C12: after a call made with a hedged or a flat position both clock fields
\* are empty, whatever the call returned.
C12_ClockClearedWhenHedgedOrFlat ==
    (last.op = "check_stop_conditions" /\ ~C4_OneSided) =>
        /\ IsNone(unhedged_start_time)
        /\ IsNone(last_unhedged_side)

\* yes.avg + no.avg > max_pair_cost, both sides held
C13_PairCostExceeded ==
    /\ position.yes.qty > 0 /\ position.no.qty > 0
    /\ RGt(pair_cost(position), Cents(MAX_PAIR_COST))

\* C13: for a hedged position that is not profitable the result is the
\* pair-cost stop whenever yes.avg + no.avg > max_pair_cost, with or without
\* an order-book snapshot.
C13_PairCostStopWithoutSnapshot ==
    (/\ last.op = "check_stop_conditions"
     /\ ~is_profitable(position)
     /\ C13_PairCostExceeded)
    => (last.result.should_stop /\ last.result.type = "pair_cost_too_high")

\* the call reported none of the first k reasons of the priority order
C14_NoneOfFirst(k) ==
    /\ last.op = "check_stop_conditions"
    /\ \A j \in 1..k : C4_Reported # C4_Priority[j]

\* C14: when no higher-priority reason is reported, the result is the
\* total-capital stop if and only if yes.cost + no.cost > max_total_capital;
\* a total equal to the limit does not stop.
C14_CapitalIffExceeded ==
    C14_NoneOfFirst(3) =>
        ((last.result.should_stop /\ last.result.type = "max_capital_exceeded")
            <=> (total_cost(position) * LotShares > MAX_TOTAL_CAPITAL * PriceScale))

C14_Witness ==
    /\ C14_NoneOfFirst(3)
    /\ total_cost(position) * LotShares = MAX_TOTAL_CAPITAL * PriceScale
    /\ last.result.type # "max_capital_exceeded"

\* C15: when no higher-priority reason is reported, the result is the
\* per-side-cap stop naming YES if yes.cost > max_pos_per_window, otherwise
\* naming NO if no.cost > max_pos_per_window; each side's cost is compared
\* with the cap on its own, and the side named always exceeds the cap.
C15_SideCapNamesOffender ==
    last.op = "check_stop_conditions" =>
        /\ C14_NoneOfFirst(4) =>
              /\ position.yes.cost * LotShares > MAX_POS_PER_WINDOW * PriceScale
                    => C4_Reported = "max_pos_exceeded YES"
              /\ (/\ position.yes.cost * LotShares <= MAX_POS_PER_WINDOW * PriceScale
                  /\ position.no.cost * LotShares > MAX_POS_PER_WINDOW * PriceScale)
                    => C4_Reported = "max_pos_exceeded NO"
        /\ last.result.type = "max_pos_exceeded" =>
              SideOf(position, Get(last.result.side)).cost * LotShares
                 > MAX_POS_PER_WINDOW * PriceScale

C15_Witness ==
    /\ last.op = "check_stop_conditions"
    /\ C4_Reported = "max_pos_exceeded NO"
    /\ position.yes.cost * LotShares = MAX_POS_PER_WINDOW * PriceScale

\* C16: when no higher-priority reason is reported and a settlement timestamp
\* is supplied, aware or naive (a naive one read as UTC), the result is the
\* settlement stop if and only if settlement time - now is at most
\* settlement_buffer_seconds; without a timestamp it is never the result.
C16_SettlementIffWithinBuffer ==
    last.op = "check_stop_conditions" =>
        /\ (C14_NoneOfFirst(6) /\ IsSome(last.market_end_time)) =>
              ((last.result.should_stop /\ last.result.type = "settlement_time_near")
                 <=> (Get(last.market_end_time).t - now <= SETTLEMENT_BUFFER_SECONDS))
        /\ IsNone(last.market_end_time) => last.result.type # "settlement_time_near"

C16_Witness ==
    /\ last.op = "check_stop_conditions"
    /\ IsSome(last.market_end_time)
    /\ Get(last.market_end_time).tz = "naive"
    /\ Get(last.market_end_time).t - now = SETTLEMENT_BUFFER_SECONDS
    /\ last.result.type = "settlement_time_near"

\* C17: a second check_stop_conditions call with the same position, order
\* book and settlement timestamp and no time elapsed returns the same result
\* as the first and changes neither unhedged_start_time nor
\* last_unhedged_side.
C17_Idempotent ==
    [][(/\ last.op = "check_stop_conditions"
        /\ last'.op = "check_stop_conditions"
        /\ last'.orderbook = last.orderbook
        /\ last'.market_end_time = last.market_end_time
        /\ position' = position
        /\ now' = now)
       => (/\ last'.result = last.result
           /\ unhedged_start_time' = unhedged_start_time
           /\ last_unhedged_side' = last_unhedged_side)]_vars

\* a repeated call: the clock it found was started at this very instant
C17_Witness ==
    /\ last.op = "check_stop_conditions"
    /\ C4_OneSided
    /\ now > 0
    /\ last.pre.unhedged_start_time = Some(now)
    /\ last.pre.last_unhedged_side = Some(C11_Side)

\* C18: check_stop_conditions leaves the position (both sides' quantity and
\* cost) and the controller's configured limits as they were.
C18_OnlyClockFieldsChange ==
    last.op = "check_stop_conditions" =>
        /\ position = last.pre.position
        /\ limits = last.pre.limits
        /\ limits = ConfigLimits

C18_Witness ==
    /\ last.op = "check_stop_conditions"
    /\ position.yes.qty > 0
    /\ last.pre.unhedged_start_time # unhedged_start_time
    /\ last.pre.last_unhedged_side # last_unhedged_side

\* the side an add_position call filled, before and after, and the other side
C19_Filled(p) == SideOf(p, last.side)
C19_Other(p) == SideOf(p, Opposite(last.side))

\* C19: add_position(q > 0, price in [0,1]) on one side grows that side's
\* quantity by q and its cost by price * q, leaves the other side as it was,
\* and afterwards the side's avg_price is cost / quantity; so over any
\* sequence of fills neither side's quantity nor cost ever decreases.
C19_FillsOnlyGrow ==
    /\ [](last.op = "add_position" =>
            /\ last.qty > 0 /\ last.price >= 0 /\ last.price <= PriceScale
            /\ C19_Filled(position).qty = C19_Filled(last.pre).qty + last.qty
            /\ C19_Filled(position).cost = C19_Filled(last.pre).cost + last.price * last.qty
            /\ C19_Filled(position).qty >= C19_Filled(last.pre).qty
            /\ C19_Filled(position).cost >= C19_Filled(last.pre).cost
            /\ C19_Other(position) = C19_Other(last.pre)
            /\ avg_price(C19_Filled(position))[1] * C19_Filled(position).qty
                 = C19_Filled(position).cost * avg_price(C19_Filled(position))[2])
    /\ [][/\ position'.yes.qty >= position.yes.qty
          /\ position'.yes.cost >= position.yes.cost
          /\ position'.no.qty >= position.no.qty
          /\ position'.no.cost >= position.no.cost]_vars

C19_Witness ==
    /\ last.op = "add_position"
    /\ C19_Filled(last.pre).cost > 0
    /\ C19_Other(last.pre).cost > 0
    /\ last.price > 0
    /\ last.price * last.qty < C19_Filled(last.pre).cost

\* C20: a side with quantity 0 has avg_price exactly 0.5; with both sides
\* empty pair_cost is exactly 1.0 and get_imbalance_ratio() is 0.0; with
\* exactly one side held the ratio is 1; the ratio never divides by zero.
C20_EmptySideDefaults ==
    /\ \A pos \in {position.yes, position.no} :
          pos.qty = 0 => REq(avg_price(pos), R(PriceScale, 2))
    /\ (position.yes.qty = 0 /\ position.no.qty = 0) =>
          /\ REq(pair_cost(position), R(PriceScale, 1))
          /\ REq(get_imbalance_ratio(position), R(0, 1))
    /\ ((position.yes.qty > 0) # (position.no.qty > 0)) =>
          REq(get_imbalance_ratio(position), R(1, 1))
    /\ get_imbalance_ratio(position)[2] > 0

C20_Witness ==
    /\ last.op = "add_position"
    /\ position.yes.qty = 0
    /\ position.no.qty > 1
    /\ position.no.cost > 0

\* place_limit_order has no raise statement: it returns an order or None
C21_Outcome == IF IsSome(last.order) THEN "order" ELSE "None"

\* C21: place_limit_order called with a side that is neither YES nor NO (in
\* any spelling) fails with an InvalidSide error instead of returning, and
\* leaves the ledger and the order lists as they were.
C21_InvalidSideFailsFast ==
    (last.op = "place_limit_order" /\ Upper(last.side) \notin Sides) =>
        /\ C21_Outcome = "InvalidSide"
        /\ C7_Untouched

C23_CancelFrame ==
    last.op = "cancel_all_orders" =>
        /\ pending_orders = <<>>
        /\ Len(orders) = Len(last.pre.orders)
        /\ \A k \in 1..Len(orders) :
              IF \E j \in 1..Len(last.pre.pending_orders) : last.pre.pending_orders[j] = k
              THEN orders[k] = [last.pre.orders[k] EXCEPT !.status = "CANCELLED"]
              ELSE orders[k] = last.pre.orders[k]
        /\ position = last.pre.position
        /\ filled_orders = last.pre.filled_orders
        /\ trade_history = last.pre.trade_history

C23_Witness ==
    /\ last.op = "cancel_all_orders"
    /\ Len(filled_orders) > 0
    /\ Len(trade_history) > 0
    /\ position.yes.qty + position.no.qty > 0
    /\ \E k \in 1..Len(orders) : orders[k].status = "FILLED"

\* C27 as stated: whenever both sides are held and pair_cost < 0.98,
\* is_profitable() is true.
C27_PairCostImpliesProfit ==
    (/\ position.yes.qty > 0 /\ position.no.qty > 0
     /\ RLt(pair_cost(position), Cents(AdmissionCeiling)))
    => is_profitable(position)

\* C27, amended: whenever both sides are held in equal quantity and
\* pair_cost < 0.98, is_profitable() is true.
C27_EqualSidesPairCostImpliesProfit ==
    (/\ position.yes.qty > 0
     /\ position.yes.qty = position.no.qty
     /\ RLt(pair_cost(position), Cents(AdmissionCeiling)))
    => is_profitable(position)

C27_Witness ==
    /\ position.yes.qty > 0
    /\ position.yes.qty = position.no.qty
    /\ position.yes.cost > 0 /\ position.no.cost > 0
    /\ RLt(pair_cost(position), Cents(AdmissionCeiling))
    /\ is_profitable(position)

\* C28: a result with should_stop = true carries a non-empty reason and a
\* non-empty details map that includes the type of the stop; the continue
\* result has should_stop = false and an empty details map.
C28_StopCarriesDiagnostics ==
    last.op = "check_stop_conditions" =>
        IF last.result.should_stop
        THEN /\ last.result.reason # ""
             /\ "type" \in last.result.details
             /\ last.result.type \in {C4_Priority[k] : k \in 1..4} \cup
                                     {"max_pos_exceeded", "settlement_time_near"}
        ELSE last.result.details = {}

C28_Witness ==
    /\ last.op = "check_stop_conditions"
    /\ last.result.should_stop
    /\ last.result.type = "pair_cost_too_high"
    /\ "pair_cost" \in last.result.details

\* C29: calculate_target_price(side, opposite_average) is 0.98 -
\* opposite_average when the side holds nothing and 0.95 times that when it
\* holds something, and is never above 0.98 - opposite_average when that
\* bound is not negative.
C29_TargetPriceFormula ==
    (last.op = "place_limit_order" /\ IsSome(last.opp)) =>
        LET bound == RSub(Cents(AdmissionCeiling), Get(last.opp))
            held  == SideOf(last.pre.position, last.side).qty
        IN  /\ held = 0 => REq(last.max_price, bound)
            /\ held > 0 => REq(last.max_price, <<95 * bound[1], 100 * bound[2]>>)
            /\ RGe(bound, Cents(0)) => RLe(last.max_price, bound)

C29_Witness ==
    /\ last.op = "place_limit_order"
    /\ IsSome(last.opp)
    /\ SideOf(last.pre.position, last.side).qty > 0
    /\ REq(last.max_price, R(95 * 48, 100))

\* a side's mid-price entered the band between the call before and this call
C30_Entered(was, cur) == C6_Inside(cur) /\ ~C6_Inside(was)

\* C30: every entry into the band is reported: YES is returned whenever its
\* mid-price was outside at the call before and is inside now, and NO is
\* returned whenever NO made that transition and YES did not; after every
\* call the stored prices are the mid-prices of that call.
C30_EveryEntryReported ==
    (last.op = "check_price" /\ IsSome(last.prev)) =>
        LET yes_in == C30_Entered(Get(last.prev).yes_price, last.yes_price)
            no_in  == C30_Entered(Get(last.prev).no_price, last.no_price)
        IN  /\ yes_in => last.side = Some("YES")
            /\ (no_in /\ ~yes_in) => last.side = Some("NO")
            /\ last_yes_price = last.yes_price
            /\ last_no_price = last.no_price

\* C24: get_priority_side returns get_target_side() whenever that is not
\* None; otherwise the side holding fewer units, YES if yes.qty < no.qty and
\* NO if not (NO on a tie); with 130 against 100 it returns NO.
C24_PrioritySide ==
    last.op = "get_priority_side" =>
        /\ IsSome(get_target_side(position)) => last.result = Get(get_target_side(position))
        /\ IsNone(get_target_side(position)) =>
              last.result = (IF position.yes.qty < position.no.qty THEN "YES" ELSE "NO")
        /\ (position.yes.qty = 13 /\ position.no.qty = 10) => last.result = "NO"

C24_Witness ==
    /\ last.op = "get_priority_side"
    /\ IsNone(get_target_side(position))
    /\ position.yes.qty > 0
    /\ position.yes.qty = position.no.qty
    /\ last.result = "NO"

\* C25: get_target_side returns NO exactly when yes.qty > 1.2 * no.qty, YES
\* exactly when no.qty > 1.2 * yes.qty, and None otherwise; the two
\* conditions never hold together and the side returned is the under-held
\* one.
C25_TargetSide ==
    last.op = "get_target_side" =>
        LET yes_ahead == 10 * position.yes.qty > 12 * position.no.qty
            no_ahead  == 10 * position.no.qty > 12 * position.yes.qty
        IN  /\ (last.result = Some("NO")) <=> yes_ahead
            /\ (last.result = Some("YES")) <=> no_ahead
            /\ IsNone(last.result) <=> (~yes_ahead /\ ~no_ahead)
            /\ ~(yes_ahead /\ no_ahead)
            /\ last.result = Some("NO") => position.no.qty < position.yes.qty
            /\ last.result = Some("YES") => position.yes.qty < position.no.qty

C25_Witness ==
    /\ last.op = "get_target_side"
    /\ position.no.qty > 0
    /\ 10 * position.yes.qty = 12 * position.no.qty
    /\ IsNone(last.result)

\* C26: should_rebalance is true if and only if |yes.qty - no.qty| /
\* (yes.qty + no.qty) is strictly greater than the imbalance threshold, the
\* ratio of a flat position being 0.
C26_ShouldRebalance ==
    last.op = "should_rebalance" =>
        LET total == position.yes.qty + position.no.qty
            diff  == IF position.yes.qty >= position.no.qty
                     THEN position.yes.qty - position.no.qty
                     ELSE position.no.qty - position.yes.qty
        IN  last.result <=> (total > 0 /\ 100 * diff > IMBALANCE_THRESHOLD * total)

C26_Witness ==
    /\ last.op = "should_rebalance"
    /\ position.yes.qty + position.no.qty > 0
    /\ 100 * (position.yes.qty - position.no.qty)
         = IMBALANCE_THRESHOLD * (position.yes.qty + position.no.qty)
    /\ ~last.result

C39_Cost(side) == IF side = "YES" THEN position.yes.cost ELSE position.no.cost

C39_EarlierStop ==
    last.result.type \in {"profit_locked", "unhedged_timeout",
                          "pair_cost_too_high", "max_capital_exceeded"}

C39_DefaultCapIs300 ==
    (last.op = "check_stop_conditions" /\ ~C39_EarlierStop) =>
        /\ (\A side \in Sides : ~ExceedsDollars(C39_Cost(side), 300))
               => last.result.type # "max_pos_exceeded"
        /\ (\E side \in Sides : ExceedsDollars(C39_Cost(side), 300))
               => last.result.type = "max_pos_exceeded"

\* C40: the controller's unhedged_start_time and last_unhedged_side are
\* either both set or both empty; reset() leaves both empty; and the two
\* fields change to a set value only in a check that sees exactly one side
\* held, which records that side and the time of the check.
C40_ClockFields == <<unhedged_start_time, last_unhedged_side>>

C40_Started ==
    /\ C40_ClockFields' # C40_ClockFields
    /\ IsSome(unhedged_start_time') \/ IsSome(last_unhedged_side')

C40_ClockFieldsPaired ==
    /\ [](IsSome(unhedged_start_time) <=> IsSome(last_unhedged_side))
    /\ [][last'.op = "reset" =>
              (IsNone(unhedged_start_time') /\ IsNone(last_unhedged_side'))]_vars
    /\ [][C40_Started =>
              /\ last'.op = "check_stop_conditions"
              /\ C4_OneSided
              /\ unhedged_start_time' = Some(now)
              /\ last_unhedged_side' =
                     Some(IF position.yes.qty > 0 THEN "YES" ELSE "NO")]_vars

C40_Witness ==
    /\ last.op = "check_stop_conditions"
    /\ last.pre.last_unhedged_side = Some("YES")
    /\ last_unhedged_side = Some("NO")
    /\ unhedged_start_time = Some(now)
    /\ now > 0
    /\ Get(last.pre.unhedged_start_time) < now

C36_SideInRange(pos) ==
    /\ pos.qty >= 0
    /\ pos.cost >= 0
    /\ pos.cost <= pos.qty * PriceScale
    /\ RGe(avg_price(pos), Cents(0))
    /\ RLe(avg_price(pos), Cents(PriceScale))

C36_LedgerInRange ==
    /\ C36_SideInRange(position.yes)
    /\ C36_SideInRange(position.no)
    /\ RGe(pair_cost(position), Cents(0))
    /\ RLe(pair_cost(position), Cents(2 * PriceScale))

C36_Witness ==
    /\ last.op = "add_position"
    /\ position.yes.qty > 0
    /\ position.yes.cost = position.yes.qty * PriceScale
    /\ position.no.qty > 0
    /\ position.no.cost = 0

\* C37: whenever should_rebalance is true with the default threshold 0.2,
\* get_target_side() is not none and get_priority_side returns the side
\* holding strictly fewer units; get_priority_side never returns the side
\* holding strictly more units.
C37_Qty(side) == IF side = "YES" THEN position.yes.qty ELSE position.no.qty

C37_PriorityIsSmallerSide ==
    last.op = "get_priority_side" =>
        /\ last.result \in Sides
        /\ C37_Qty(last.result) <= C37_Qty(Opposite(last.result))
        /\ should_rebalance(position) =>
               /\ IsSome(get_target_side(position))
               /\ Get(get_target_side(position)) = last.result
               /\ C37_Qty(last.result) < C37_Qty(Opposite(last.result))

C37_Witness ==
    /\ last.op = "get_priority_side"
    /\ should_rebalance(position)
    /\ position.yes.qty > 0
    /\ position.no.qty > 0
    /\ 2 * C37_Qty(last.result) > C37_Qty(Opposite(last.result))

RECURSIVE C34_Qty(_, _)
C34_Qty(k, side) ==
    IF k = 0 THEN 0
    ELSE C34_Qty(k - 1, side)
         + (IF orders[k].status = "FILLED" /\ Upper(orders[k].side) = side
            THEN orders[k].filled_qty ELSE 0)

RECURSIVE C34_Cost(_, _)
C34_Cost(k, side) ==
    IF k = 0 THEN 0
    ELSE C34_Cost(k - 1, side)
         + (IF orders[k].status = "FILLED" /\ Upper(orders[k].side) = side
            THEN orders[k].filled_qty * orders[k].filled_price ELSE 0)

C34_Filled == {k \in 1..Len(orders) : orders[k].status = "FILLED"}

C34_LedgerIsSumOfFills ==
    /\ \A side \in Sides :
          /\ SideOf(position, side).qty = C34_Qty(Len(orders), side)
          /\ SideOf(position, side).cost = C34_Cost(Len(orders), side)
    /\ trade_history = filled_orders
    /\ {filled_orders[j] : j \in 1..Len(filled_orders)} = C34_Filled
    /\ Len(filled_orders) = Cardinality(C34_Filled)

\* C38: place_limit_order never changes the order-book snapshot: the manager
\* holds after the call the snapshot it held before (or the one it fetched),
\* and every fill is min(requested, resting quantity of that snapshot's best
\* ask) whatever was filled from the snapshot before, so the total filled
\* from one snapshot can exceed its resting quantity.
C38_SnapshotUntouched ==
    last.op = "place_limit_order" =>
        /\ current_orderbook = C7_Book
        /\ \A i \in 1..Len(orders) :
              (last.order = Some(i) /\ orders[i].status = "FILLED") =>
                  orders[i].filled_qty = Min(last.qty, C7_Asks[1].qty)

C38_Witness ==
    /\ last.op = "place_limit_order"
    /\ last.pre.current_orderbook = current_orderbook
    /\ Len(filled_orders) = 2
    /\ \A i \in 1..2 : /\ orders[i].status = "FILLED"
                       /\ orders[i].side = "YES"
                       /\ orders[i].filled_price = C7_Asks[1].price
    /\ orders[1].filled_qty + orders[2].filled_qty > C7_Asks[1].qty

\* C32: once the bot has stopped because the position became profitable
\* (is_trading false, cancel_all_orders called by trading_loop), no further
\* fill is applied to the ledger: no order task scheduled by a price alert
\* is still pending at the stop, and no later step changes the ledger.
C32_NoFillAfterStop ==
    /\ [](~bot.is_trading => (bot.tasks = <<>> /\ is_profitable(position)))
    /\ [][~bot.is_trading =>
              (position' = position /\ filled_orders' = filled_orders)]_vars

C32_Witness ==
    /\ ~bot.is_trading
    /\ last.op = "trading_loop"
    /\ last.calls = <<"is_profitable", "cancel_all_orders">>
    /\ \E k \in 1..Len(orders) : orders[k].qty = OrderLots(DEFAULT_ORDER_SIZE)
    /\ \E k \in 1..Len(orders) : orders[k].qty = OrderLots(REBALANCE_ORDER_SIZE)
    /\ Len(filled_orders) = Len(orders)

====
